---- MODULE Spec2Model ----
(***************************************************************************)
(* College admissions portal: the session / authentication subsystem.      *)
(*                                                                         *)
(* Server (src/server/index.js): the process-wide maps activeSessions,     *)
(* sessionTokenVersions and loginAttempts, the JWT codec, the two          *)
(* middlewares and the /api/auth routes.  Every handler is one atomic step *)
(* of the Node event loop, except where the code awaits (bcrypt.compare in *)
(* login, bcrypt.hash in register): there the handler is split in the part *)
(* before the await and the part after it, and other requests interleave.  *)
(*                                                                         *)
(* Times are milliseconds (Date.now()); JWT timestamps are seconds.        *)
(***************************************************************************)
EXTENDS Integers, Sequences, FiniteSets, Bags, TLC

VARIABLES
    now,                   \* Date.now() of the server process, ms
    users,                 \* the users table: set of rows
    activeSessions,        \* Map userId -> Set of tokens (insertion ordered)
    sessionTokenVersions,  \* Map userId -> version
    loginAttempts,         \* Map email -> {count, resetTime}
    inflight,              \* handlers suspended at an await (a bag)
    issued,                \* tokens handed out to clients so far
    nextJti,               \* source of fresh uuidv4() values for jwtid
    nextUserId,            \* source of fresh uuidv4() values for user ids
    res,                   \* the response written by the last handler step
    applications,          \* the applications table: id -> row
    reviews,               \* the reviews table: application ids under review
    nextAppId,             \* source of fresh uuidv4() values for applications
    resetLinks,            \* the reset tokens forgot-password put in reset links
    \* Client (AuthProvider, src/client/src/components/FormField.jsx)
    clock,                 \* Date.now() in the browser, ms
    user,                  \* the user state
    storage,               \* localStorage: the user stored with authToken
    location,              \* the router's path
    locationState,         \* the router's location.state
    loading,               \* the loading state
    showTimeoutWarning,
    remainingTime,
    timeoutRef,            \* id of the logout timer last scheduled (0: null)
    warningTimeoutRef,     \* id of the warning timer last scheduled (0: null)
    countdownIntervalRef,  \* id of the countdown interval last started (0: null)
    lastActivityRef,
    timers,                \* the browser's pending timers
    nextTimerId,           \* the browser's next timer id
    logoutCalls,           \* logout() calls awaiting their fetch
    pings,                 \* the promises of extendSession's fetch calls
    \* Client (useSubmitLock, src/client/src/hooks/useSubmitLock.js)
    isSubmitting,          \* the isSubmitting state, as last set
    renderedSubmitting,    \* isSubmitting as the last render's lockSubmit sees it
    submitCountRef,
    submissions,           \* the calls of asyncFunction that have not settled
    lockResult             \* what the last lockSubmit call did

dataVars == <<applications, reviews, nextAppId, resetLinks>>

authVars == <<now, users, activeSessions, sessionTokenVersions, loginAttempts,
              inflight, issued, nextJti, nextUserId>>

serverVars == <<authVars, res, dataVars>>

routerVars == <<location, locationState, loading>>

hookVars == <<isSubmitting, renderedSubmitting, submitCountRef, submissions,
              lockResult>>

clientVars == <<clock, user, storage, showTimeoutWarning, remainingTime,
                timeoutRef, warningTimeoutRef, countdownIntervalRef,
                lastActivityRef, timers, nextTimerId, logoutCalls, pings,
                routerVars, hookVars>>

vars == <<serverVars, clientVars>>

----------------------------------------------------------------------------
(* Program constants *)

MAX_CONCURRENT_SESSIONS == 5
JWT_SECRET == "your-super-secret-jwt-key-change-in-production"
windowMs == 15 * 60 * 1000
maxAttempts == 5
expiresIn == 24 * 60 * 60
SESSION_TIMEOUT == 30 * 60 * 1000
WARNING_BEFORE_TIMEOUT == 2 * 60 * 1000
countdownMs == 1000

(* Bounds of the model *)

MaxJti == 7
MaxTokens == 2
MaxThrottleTokens == 1
MaxInflight == 2
MaxRegistrations == 1
MaxWindows == 1
MaxDays == 1
MaxVersion == 2
MaxTimerId == 7
MaxLogoutCalls == 2
MaxClock == 3600000
MaxApps == 1
MaxEvictJti == 6
MaxPings == 1
MaxSubmits == 4
MaxResetLinks == 1

----------------------------------------------------------------------------
(* Small helpers for JS values *)

Range(s) == {s[i] : i \in 1..Len(s)}

Max(a, b) == IF a >= b THEN a ELSE b

\* Math.ceil(a / b) for b > 0 (a may be negative)
CeilDiv(a, b) == -((-a) \div b)

\* a field that a body or a payload does not carry
Undefined == "undefined"

\* Map.has(k)
Has(m, k) == k \in DOMAIN m

\* Map.set(k, v)
MapSet(m, k, v) == IF k \in DOMAIN m THEN [m EXCEPT ![k] = v] ELSE m @@ (k :> v)

\* Set.prototype.add on an insertion-ordered Set
SetAdd(s, t) == IF t \in Range(s) THEN s ELSE Append(s, t)

\* Set.prototype.delete
SetDelete(s, t) == SelectSeq(s, LAMBDA x : x # t)

\* Array.prototype.slice(k) on the iteration order: drop the first k
DropFirst(s, k) == SubSeq(s, k + 1, Len(s))

----------------------------------------------------------------------------
(* The users table *)

SeedUsers ==
    { [id |-> 1, email |-> "admin@college.edu",   password |-> "admin123",   role |-> "admin"],
      [id |-> 2, email |-> "officer@college.edu", password |-> "officer123", role |-> "officer"],
      [id |-> 3, email |-> "student@email.com", password |-> "student123", role |-> "applicant"] }

\* role TEXT ... CHECK(role IN ('admin', 'officer', 'applicant'))
Roles == {"admin", "officer", "applicant"}

\* queryOne('SELECT * FROM users WHERE email = ?')
UserByEmail(e) == {u \in users : u.email = e}

\* queryOne('SELECT ... FROM users WHERE id = ?')
UserById(i) == {u \in users : u.id = i}

\* bcrypt.compare(password, hash): the hash is modelled by the password hashed
BcryptCompare(password, hash) == password = hash

----------------------------------------------------------------------------
(* Token codec (jsonwebtoken) *)

\* What a request can carry besides a token the server issued.  A token is a
\* record of its payload and of the key that signed it.
Unsigned(sig) == [id |-> 1, email |-> "admin@college.edu", role |-> "admin",
                  sessionVersion |-> 1, jti |-> 0, iat |-> 0, exp |-> expiresIn,
                  type |-> Undefined, sig |-> sig]

NoToken == Unsigned("no-authorization-header")
Malformed == Unsigned("not-a-jwt")
Forged == Unsigned("attacker-key")

\* Math.floor(Date.now() / 1000)
ClockTimestamp(t) == t \div 1000

\* sessionTokenVersions.get(user.id) || 1
VersionOrDefault(uid) ==
    IF Has(sessionTokenVersions, uid) /\ sessionTokenVersions[uid] # 0
    THEN sessionTokenVersions[uid] ELSE 1

SignTokenMutant(row, version, jti, t) ==
    [id |-> row.id, email |-> row.email, role |-> row.role,
     sessionVersion |-> version, jti |-> jti,
     iat |-> ClockTimestamp(t), exp |-> ClockTimestamp(t) + 60 * 60,
     type |-> Undefined, sig |-> JWT_SECRET]
\* generateToken(user), with the version and the clock passed explicitly
SignToken(row, version, jti, t) ==
    [id |-> row.id, email |-> row.email, role |-> row.role,
     sessionVersion |-> version, jti |-> jti,
     iat |-> ClockTimestamp(t), exp |-> ClockTimestamp(t) + expiresIn,
     type |-> Undefined, sig |-> JWT_SECRET]

generateToken(row) == SignToken(row, VersionOrDefault(row.id), nextJti, now)

\* jwt.sign({ id, type: 'password-reset' }, JWT_SECRET, { expiresIn: '1h' });
\* the payload carries no email, role, sessionVersion (0) or jti (0)
resetExpiresIn == 60 * 60

SignResetToken(row, t) ==
    [id |-> row.id, email |-> Undefined, role |-> Undefined,
     sessionVersion |-> 0, jti |-> 0,
     iat |-> ClockTimestamp(t), exp |-> ClockTimestamp(t) + resetExpiresIn,
     type |-> "password-reset", sig |-> JWT_SECRET]

\* jwt.verify: the exp check is clockTimestamp >= payload.exp
JwtExpired(tok, t) == ClockTimestamp(t) >= tok.exp

\* jwt.verify(token, JWT_SECRET): "ok", or the name of the error thrown
JwtVerify(tok, t) ==
    IF tok.sig = Malformed.sig THEN "JsonWebTokenError"
    ELSE IF tok.sig # JWT_SECRET THEN "JsonWebTokenError"
    ELSE IF JwtExpired(tok, t) THEN "TokenExpiredError"
    ELSE "ok"

----------------------------------------------------------------------------
(* Middlewares: the result is either "next" or the response sent *)

\* The response, with the request it answers: the route, the token presented
\* (or the token issued, for login and register) and, for a throttled login,
\* the password submitted
Response(route, status, message, tok) ==
    [route |-> route, status |-> status, message |-> message,
     tok |-> tok, retryAfter |-> -1, password |-> ""]

MsgAuthRequired == "Authentication required"
MsgInvalidOrExpired == "Invalid or expired token"
MsgSessionExpired == "Session expired. Please log in again."
MsgSessionInvalidated == "Session invalidated. Please log in again."

authenticateTokenOpen(route, tok) ==
    IF tok = NoToken THEN Response(route, 0, "next", tok)
    ELSE IF JwtVerify(tok, now) # "ok" THEN Response(route, 403, MsgInvalidOrExpired, tok)
    ELSE Response(route, 0, "next", tok)
authenticateTokenMutant(route, tok) ==
    IF JwtVerify(tok, now) # "ok" THEN Response(route, 403, MsgInvalidOrExpired, tok)
    ELSE Response(route, 0, "next", tok)
\* authenticateToken: the gate of every protected route
authenticateToken(route, tok) ==
    IF tok = NoToken THEN Response(route, 401, MsgAuthRequired, tok)
    ELSE IF JwtVerify(tok, now) # "ok" THEN Response(route, 403, MsgInvalidOrExpired, tok)
    ELSE Response(route, 0, "next", tok)

\* validateSession: defined by the server, mounted on no route
validateSession(route, tok) ==
    IF tok = NoToken THEN Response(route, 401, MsgAuthRequired, tok)
    ELSE IF JwtVerify(tok, now) = "TokenExpiredError"
         THEN Response(route, 401, MsgSessionExpired, tok)
    ELSE IF JwtVerify(tok, now) # "ok"
         THEN Response(route, 403, MsgInvalidOrExpired, tok)
    ELSE IF /\ Has(sessionTokenVersions, tok.id)
            /\ sessionTokenVersions[tok.id] # 0
            /\ tok.sessionVersion # sessionTokenVersions[tok.id]
         THEN Response(route, 403, MsgSessionInvalidated, tok)
    ELSE Response(route, 0, "next", tok)

Admitted(r) == r.message = "next"

----------------------------------------------------------------------------
(* Initial state: maps empty, database seeded *)

NoResponse == [route |-> "none", status |-> 0, message |-> "", tok |-> NoToken,
               retryAfter |-> -1, password |-> ""]

NoUser == "null"

InitClient ==
    /\ clock = 0
    /\ user = NoUser
    /\ storage = NoUser
    /\ location = "/login"
    /\ locationState = [unauthorized |-> FALSE, returnTo |-> ""]
    /\ loading = FALSE
    /\ showTimeoutWarning = FALSE
    /\ remainingTime = 0
    /\ timeoutRef = 0
    /\ warningTimeoutRef = 0
    /\ countdownIntervalRef = 0
    /\ lastActivityRef = 0
    /\ timers = {}
    /\ nextTimerId = 1
    /\ logoutCalls = 0
    /\ pings = << >>
    /\ isSubmitting = FALSE
    /\ renderedSubmitting = FALSE
    /\ submitCountRef = 0
    /\ submissions = {}
    /\ lockResult = "none"

Init ==
    /\ InitClient
    /\ now = 0
    /\ users = SeedUsers
    /\ activeSessions = << >>
    /\ sessionTokenVersions = << >>
    /\ loginAttempts = << >>
    /\ inflight = EmptyBag
    /\ issued = {}
    /\ nextJti = 1
    /\ nextUserId = 4
    /\ res = NoResponse
    /\ applications = << >>
    /\ reviews = {}
    /\ nextAppId = 1
    /\ resetLinks = {}

----------------------------------------------------------------------------
(* Views of the registry *)

SessionsOf(uid) == IF Has(activeSessions, uid) THEN activeSessions[uid] ELSE << >>
IssuedTo(uid) == {t \in issued : t.id = uid}
Live(t) == t \in Range(SessionsOf(t.id))

----------------------------------------------------------------------------
(* POST /api/auth/login *)

\* The entry the handler works on after "has / set" and the window reset
AttemptData(e) ==
    LET a == IF Has(loginAttempts, e) THEN loginAttempts[e]
             ELSE [count |-> 0, resetTime |-> now + windowMs]
    IN  IF now > a.resetTime
        THEN [count |-> 0, resetTime |-> now + windowMs]
        ELSE a

\* Math.ceil((attemptData.resetTime - now) / 1000 / 60)
RemainingTime(a) == CeilDiv(a.resetTime - now, 60000)

RateLimitedMutant(a) == a.count > maxAttempts
RateLimited(a) == a.count >= maxAttempts

CountFailureTwice(attempts, e) == [attempts EXCEPT ![e].count = @ + 2]
CountFailureShared(attempts, e) ==
    [k \in DOMAIN attempts |-> [attempts[k] EXCEPT !.count = @ + 1]]
\* attemptData.count++ on the object the map holds for the email
CountFailure(attempts, e) == [attempts EXCEPT ![e].count = @ + 1]

\* Up to the await of bcrypt.compare
LoginBegin(email, password) ==
    LET a == AttemptData(email)
        attempts == MapSet(loginAttempts, email, a)
        found == UserByEmail(email)
    IN  /\ IF RateLimited(a)
           THEN /\ loginAttempts' = attempts
                /\ res' = [Response("login", 429, "Too many login attempts", NoToken)
                             EXCEPT !.retryAfter = RemainingTime(a),
                                    !.password = password]
                /\ inflight' = inflight
           ELSE IF email = "" \/ password = ""
           THEN /\ loginAttempts' = attempts
                /\ res' = Response("login", 400, "Email and password are required", NoToken)
                /\ inflight' = inflight
           ELSE IF found = {}
           THEN /\ loginAttempts' = CountFailure(attempts, email)
                /\ res' = Response("login", 401, "Invalid email or password", NoToken)
                /\ inflight' = inflight
           ELSE /\ loginAttempts' = attempts
                /\ res' = res
                /\ inflight' = inflight (+) SetToBag(
                      {[op |-> "login", email |-> email, password |-> password,
                        user |-> CHOOSE u \in found : TRUE]})
        /\ UNCHANGED <<now, users, activeSessions, sessionTokenVersions, issued,
                       nextJti, nextUserId>>
        /\ UNCHANGED <<dataVars, clientVars>>

\* userSessions.add(token), then the concurrent-session limit
EvictMutant(sessions) ==
    IF Len(sessions) > MAX_CONCURRENT_SESSIONS
    THEN SubSeq(sessions, 1, Len(sessions) - 1)
    ELSE sessions
Evict(sessions) ==
    IF Len(sessions) > MAX_CONCURRENT_SESSIONS
    THEN SetDelete(sessions, Head(sessions))
    ELSE sessions

TrackSession(uid, token) ==
    LET sessions == IF Has(activeSessions, uid) THEN activeSessions[uid] ELSE << >>
    IN  MapSet(activeSessions, uid, Evict(SetAdd(sessions, token)))

\* From the await of bcrypt.compare to the response
LoginResume(r) ==
    LET token == generateToken(r.user)
    IN  /\ r.op = "login"
        /\ inflight' = inflight (-) SetToBag({r})
        /\ IF ~BcryptCompare(r.password, r.user.password)
           THEN /\ loginAttempts' = CountFailure(loginAttempts, r.email)
                /\ res' = Response("login", 401, "Invalid email or password", NoToken)
                /\ UNCHANGED <<activeSessions, issued, nextJti>>
           ELSE /\ loginAttempts' = [loginAttempts EXCEPT ![r.email].count = 0]
                /\ activeSessions' = TrackSession(r.user.id, token)
                /\ issued' = issued \cup {token}
                /\ nextJti' = nextJti + 1
                /\ res' = Response("login", 200, "Login successful", token)
        /\ UNCHANGED <<now, users, sessionTokenVersions, nextUserId>>
        /\ UNCHANGED <<dataVars, clientVars>>

----------------------------------------------------------------------------
(* POST /api/auth/logout *)

RevokeMutant(sessions, token) == << >>
Revoke(sessions, token) == SetDelete(sessions, token)

LogoutMutant(tok) ==
    LET auth == authenticateToken("logout", tok)
    IN  /\ IF ~Admitted(auth)
           THEN /\ res' = auth
                /\ activeSessions' = activeSessions
           ELSE /\ activeSessions' = [u \in DOMAIN activeSessions |-> << >>]
                /\ res' = Response("logout", 200, "Logged out successfully", tok)
        /\ UNCHANGED <<now, users, sessionTokenVersions, loginAttempts, inflight,
                       issued, nextJti, nextUserId>>
        /\ UNCHANGED <<dataVars, clientVars>>
Logout(tok) ==
    LET auth == authenticateToken("logout", tok)
    IN  /\ IF ~Admitted(auth)
           THEN /\ res' = auth
                /\ activeSessions' = activeSessions
           ELSE /\ activeSessions' =
                      IF Has(activeSessions, tok.id)
                      THEN [activeSessions EXCEPT ![tok.id] = Revoke(@, tok)]
                      ELSE activeSessions
                /\ res' = Response("logout", 200, "Logged out successfully", tok)
        /\ UNCHANGED <<now, users, sessionTokenVersions, loginAttempts, inflight,
                       issued, nextJti, nextUserId>>
        /\ UNCHANGED <<dataVars, clientVars>>

----------------------------------------------------------------------------
(* GET /api/auth/me *)

MeRenew(tok) ==
    LET auth == authenticateToken("me", tok)
        rows == UserById(tok.id)
        token == generateToken(CHOOSE u \in rows : TRUE)
        renew == JwtVerify(tok, now) = "TokenExpiredError" /\ rows # {}
    IN  /\ res' = IF renew THEN Response("me", 200, "user", token)
                  ELSE IF ~Admitted(auth) THEN auth
                  ELSE IF rows = {} THEN Response("me", 404, "User not found", tok)
                  ELSE Response("me", 200, "user", tok)
        /\ issued' = IF renew THEN issued \cup {token} ELSE issued
        /\ UNCHANGED <<now, users, activeSessions, sessionTokenVersions,
                       loginAttempts, inflight, nextJti, nextUserId>>
        /\ UNCHANGED <<dataVars, clientVars>>

MePrune(tok) ==
    LET auth == authenticateToken("me", tok)
    IN  /\ res' = IF ~Admitted(auth) THEN auth
                  ELSE IF UserById(tok.id) = {}
                       THEN Response("me", 404, "User not found", tok)
                       ELSE Response("me", 200, "user", tok)
        /\ activeSessions' =
              IF JwtVerify(tok, now) = "TokenExpiredError" /\ Has(activeSessions, tok.id)
              THEN [activeSessions EXCEPT ![tok.id] = SetDelete(@, tok)]
              ELSE activeSessions
        /\ UNCHANGED <<now, users, sessionTokenVersions,
                       loginAttempts, inflight, issued, nextJti, nextUserId>>
        /\ UNCHANGED <<dataVars, clientVars>>
Me(tok) ==
    LET auth == authenticateToken("me", tok)
    IN  /\ res' = IF ~Admitted(auth) THEN auth
                  ELSE IF UserById(tok.id) = {}
                       THEN Response("me", 404, "User not found", tok)
                       ELSE Response("me", 200, "user", tok)
        /\ UNCHANGED <<now, users, activeSessions, sessionTokenVersions,
                       loginAttempts, inflight, issued, nextJti, nextUserId>>
        /\ UNCHANGED <<dataVars, clientVars>>

----------------------------------------------------------------------------
(* setInterval session cleanup, every minute *)

TrimMutant(tokens) ==
    IF Len(tokens) >= MAX_CONCURRENT_SESSIONS
    THEN DropFirst(tokens, Len(tokens) - MAX_CONCURRENT_SESSIONS + 1)
    ELSE tokens
Trim(tokens) ==
    IF Len(tokens) > MAX_CONCURRENT_SESSIONS
    THEN DropFirst(tokens, Len(tokens) - MAX_CONCURRENT_SESSIONS)
    ELSE tokens

Sweep ==
    /\ activeSessions' = [uid \in DOMAIN activeSessions |-> Trim(activeSessions[uid])]
    /\ UNCHANGED <<now, users, sessionTokenVersions, loginAttempts, inflight,
                   issued, nextJti, nextUserId, res>>
    /\ UNCHANGED <<dataVars, clientVars>>

----------------------------------------------------------------------------
(* POST /api/auth/register *)

\* /^[^\s@]+@[^\s@]+\.[^\s@]+$/ on the addresses the model submits
EmailFormatOk(e) == e \in {"admin@college.edu", "officer@college.edu",
                           "student@email.com", "new@college.edu", "x@y.com"}

PasswordLength(p) ==
    CASE p = "" -> 0
      [] p = "short" -> 5
      [] p = "wrong-password" -> 14
      [] p = "admin123" -> 8
      [] p = "newpass123" -> 10
      [] p = "student123" -> 10
      [] OTHER -> 10

\* Up to the await of bcrypt.hash
RegisterBegin(email, password, role) ==
    /\ IF email = "" \/ password = ""
       THEN /\ res' = Response("register", 400, "Email, password, and name are required", NoToken)
            /\ inflight' = inflight
       ELSE IF ~EmailFormatOk(email)
       THEN /\ res' = Response("register", 400, "Invalid email format", NoToken)
            /\ inflight' = inflight
       ELSE IF PasswordLength(password) < 8
       THEN /\ res' = Response("register", 400, "Password must be at least 8 characters", NoToken)
            /\ inflight' = inflight
       ELSE IF UserByEmail(email) # {}
       THEN /\ res' = Response("register", 400, "Email already registered", NoToken)
            /\ inflight' = inflight
       ELSE /\ res' = res
            /\ inflight' = inflight (+) SetToBag(
                  {[op |-> "register", email |-> email, password |-> password,
                    user |-> [id |-> 0, email |-> email, password |-> password,
                              role |-> role]]})
    /\ UNCHANGED <<now, users, activeSessions, sessionTokenVersions, loginAttempts,
                   issued, nextJti, nextUserId>>
    /\ UNCHANGED <<dataVars, clientVars>>

\* From the await of bcrypt.hash to the response; the INSERT throws on a
\* duplicate email (email TEXT UNIQUE) and on a role outside the column's
\* CHECK list, and the catch answers 500
RegisterResume(r) ==
    LET row == [r.user EXCEPT !.id = nextUserId]
        versions == MapSet(sessionTokenVersions, row.id, 1)
        token == SignToken(row, 1, nextJti, now)
        sessions == IF Has(activeSessions, row.id) THEN activeSessions[row.id] ELSE << >>
    IN  /\ r.op = "register"
        /\ inflight' = inflight (-) SetToBag({r})
        /\ IF UserByEmail(r.email) # {} \/ r.user.role \notin Roles
           THEN /\ res' = Response("register", 500, "Registration failed", NoToken)
                /\ nextUserId' = nextUserId + 1
                /\ UNCHANGED <<users, sessionTokenVersions, activeSessions, issued, nextJti>>
           ELSE /\ users' = users \cup {row}
                /\ nextUserId' = nextUserId + 1
                /\ sessionTokenVersions' = versions
                /\ activeSessions' = MapSet(activeSessions, row.id, SetAdd(sessions, token))
                /\ issued' = issued \cup {token}
                /\ nextJti' = nextJti + 1
                /\ res' = Response("register", 201, "Registration successful", token)
        /\ UNCHANGED <<now, loginAttempts>>
        /\ UNCHANGED <<dataVars, clientVars>>

----------------------------------------------------------------------------
(* POST /api/auth/forgot-password: the answer is the same whether or not   *)
(* the email has an account; the reset token goes out in the reset link.   *)

ForgotPassword(email) ==
    /\ IF email = ""
       THEN /\ res' = Response("forgot-password", 400, "Email is required", NoToken)
            /\ resetLinks' = resetLinks
       ELSE /\ res' = Response("forgot-password", 200,
                               "If an account exists with that email, a password reset link will be sent.",
                               NoToken)
            /\ resetLinks' = resetLinks \cup
                  {SignResetToken(u, now) : u \in UserByEmail(email)}
    /\ UNCHANGED <<authVars, applications, reviews, nextAppId>>
    /\ UNCHANGED clientVars

----------------------------------------------------------------------------
(* User management.  req.user is the payload of the verified token.        *)

\* GET /api/users
GetUsers(tok) ==
    LET auth == authenticateToken("users", tok)
    IN  /\ res' = IF ~Admitted(auth) THEN auth
                  ELSE IF tok.role # "admin"
                  THEN Response("users", 403, "Admin access required", tok)
                  ELSE Response("users", 200, "users", tok)
        /\ UNCHANGED <<authVars, dataVars>>
        /\ UNCHANGED clientVars

\* PUT /api/users/:id/role; the UPDATE of an id that has no row changes nothing
PutUserRole(tok, id, role) ==
    LET auth == authenticateToken("role", tok)
        out == IF ~Admitted(auth) THEN auth
               ELSE IF tok.role # "admin"
               THEN Response("role", 403, "Admin access required", tok)
               ELSE IF role \notin Roles
               THEN Response("role", 400, "Invalid role", tok)
               ELSE Response("role", 200, "User role updated", tok)
    IN  /\ res' = out
        /\ users' = IF out.status = 200
                    THEN {IF u.id = id THEN [u EXCEPT !.role = role] ELSE u : u \in users}
                    ELSE users
        /\ UNCHANGED <<now, activeSessions, sessionTokenVersions, loginAttempts,
                       inflight, issued, nextJti, nextUserId>>
        /\ UNCHANGED <<dataVars, clientVars>>

----------------------------------------------------------------------------
(* PUT /api/auth/password *)

\* Up to the await of bcrypt.compare; the row read before the await stays
\* with the handler
PasswordBegin(tok, currentPassword, newPassword) ==
    LET auth == authenticateToken("password", tok)
    IN  /\ IF ~Admitted(auth)
           THEN /\ res' = auth
                /\ inflight' = inflight
           ELSE IF currentPassword = "" \/ newPassword = "" \/ PasswordLength(newPassword) < 6
           THEN /\ res' = Response("password", 400,
                                   "Current password and new password (6+ chars) required", tok)
                /\ inflight' = inflight
           ELSE /\ UserById(tok.id) # {}
                /\ res' = res
                /\ inflight' = inflight (+) SetToBag(
                      {[op |-> "password", email |-> newPassword,
                        password |-> currentPassword,
                        user |-> CHOOSE u \in UserById(tok.id) : TRUE,
                        tok |-> tok]})
        /\ UNCHANGED <<now, users, activeSessions, sessionTokenVersions,
                       loginAttempts, issued, nextJti, nextUserId>>
        /\ UNCHANGED <<dataVars, clientVars>>

PasswordResumeMutant(r) ==
    /\ r.op = "password"
    /\ inflight' = inflight (-) SetToBag({r})
    /\ IF ~Live(r.tok)
       THEN /\ res' = Response("password", 401, MsgSessionExpired, r.tok)
            /\ users' = users
       ELSE IF ~BcryptCompare(r.password, r.user.password)
       THEN /\ res' = Response("password", 401, "Current password is incorrect", r.tok)
            /\ users' = users
       ELSE /\ res' = Response("password", 200, "Password updated successfully", r.tok)
            /\ users' = {IF u.id = r.tok.id THEN [u EXCEPT !.password = r.email] ELSE u
                            : u \in users}
    /\ UNCHANGED <<now, activeSessions, sessionTokenVersions, loginAttempts,
                   issued, nextJti, nextUserId>>
    /\ UNCHANGED <<dataVars, clientVars>>
\* From the await of bcrypt.compare to the response.  The stretch between
\* this await and the await of bcrypt.hash reads and writes nothing shared,
\* so the two suspensions are taken as one.  The field `email` of the
\* suspended handler holds the new password.
PasswordResume(r) ==
    /\ r.op = "password"
    /\ inflight' = inflight (-) SetToBag({r})
    /\ IF ~BcryptCompare(r.password, r.user.password)
       THEN /\ res' = Response("password", 401, "Current password is incorrect", r.tok)
            /\ users' = users
       ELSE /\ res' = Response("password", 200, "Password updated successfully", r.tok)
            /\ users' = {IF u.id = r.tok.id THEN [u EXCEPT !.password = r.email] ELSE u
                            : u \in users}
    /\ UNCHANGED <<now, activeSessions, sessionTokenVersions, loginAttempts,
                   issued, nextJti, nextUserId>>
    /\ UNCHANGED <<dataVars, clientVars>>

----------------------------------------------------------------------------
(* The applications and reviews routes.  Each handler is synchronous: one  *)
(* step from the middleware to the response.  req.user is the payload of   *)
(* the token that authenticateToken verified.                              *)

validStatuses == {"draft", "submitted", "under_review", "accepted", "rejected"}
reviewStatuses == {"under_review", "accepted", "rejected"}
Staff == {"admin", "officer"}

\* GET /api/applications
GetApplications(tok) ==
    LET auth == authenticateToken("applications", tok)
    IN  /\ res' = IF ~Admitted(auth) THEN auth
                  ELSE Response("applications", 200, "applications", tok)
        /\ UNCHANGED <<authVars, dataVars>>
        /\ UNCHANGED clientVars

\* GET /api/dashboard/stats
DashboardStats(tok) ==
    LET auth == authenticateToken("stats", tok)
    IN  /\ res' = IF ~Admitted(auth) THEN auth
                  ELSE Response("stats", 200, "stats", tok)
        /\ UNCHANGED <<authVars, dataVars>>
        /\ UNCHANGED clientVars

\* POST /api/applications; body: "complete", "incomplete" (a required field
\* is missing) or "no-program" (program_id names no program)
PostApplication(tok, body) ==
    LET auth == authenticateToken("apply", tok)
        out == IF ~Admitted(auth) THEN auth
               ELSE IF body = "incomplete"
               THEN Response("apply", 400, "Program, first name, last name, and email are required", tok)
               ELSE IF body = "no-program"
               THEN Response("apply", 400, "Invalid program", tok)
               ELSE Response("apply", 201, "Application created", tok)
    IN  /\ res' = out
        /\ IF out.status = 201
           THEN /\ applications' = MapSet(applications, nextAppId,
                                          [user_id |-> tok.id, status |-> "draft"])
                /\ nextAppId' = nextAppId + 1
           ELSE UNCHANGED <<applications, nextAppId>>
        /\ UNCHANGED <<authVars, resetLinks, reviews>>
        /\ UNCHANGED clientVars

\* PUT /api/applications/:id/status, after the middleware
StatusChange(tok, id, status) ==
    IF status \notin validStatuses
    THEN Response("status", 400, "Invalid status", tok)
    ELSE IF ~Has(applications, id)
    THEN Response("status", 404, "Application not found", tok)
    ELSE IF tok.role = "applicant" /\ applications[id].user_id # tok.id
    THEN Response("status", 403, "Access denied", tok)
    ELSE IF tok.role = "applicant"
            /\ (status # "submitted" \/ applications[id].status # "draft")
    THEN Response("status", 403, "Applicants can only submit draft applications", tok)
    ELSE IF status \in reviewStatuses /\ tok.role \notin Staff
    THEN Response("status", 403, "Only admissions officers can change to this status", tok)
    ELSE Response("status", 200, "Status updated", tok)

PutApplicationStatus(tok, id, status) ==
    LET auth == authenticateToken("status", tok)
        out == IF ~Admitted(auth) THEN auth ELSE StatusChange(tok, id, status)
    IN  /\ res' = out
        /\ applications' = IF out.status = 200
                           THEN [applications EXCEPT ![id].status = status]
                           ELSE applications
        /\ UNCHANGED <<authVars, resetLinks, reviews, nextAppId>>
        /\ UNCHANGED clientVars

\* PUT /api/applications/:id, after the middleware; `status` is the body's
\* status or Undefined, `others` tells whether the body carries another field.
\* A status outside the column's CHECK list makes the UPDATE throw, which the
\* global error handler answers with 500.
Update(tok, id, status, others) ==
    IF ~Has(applications, id)
    THEN Response("update", 404, "Application not found", tok)
    ELSE IF tok.role = "applicant" /\ applications[id].user_id # tok.id
    THEN Response("update", 403, "Access denied", tok)
    ELSE IF status = Undefined /\ ~others
    THEN Response("update", 400, "No updates provided", tok)
    ELSE IF status \notin validStatuses \cup {Undefined}
    THEN Response("update", 500, "An unexpected error occurred. Please try again later.", tok)
    ELSE Response("update", 200, "Application updated", tok)

PutApplication(tok, id, status, others) ==
    LET auth == authenticateToken("update", tok)
        out == IF ~Admitted(auth) THEN auth ELSE Update(tok, id, status, others)
    IN  /\ res' = out
        /\ applications' = IF out.status = 200 /\ status # Undefined
                           THEN [applications EXCEPT ![id].status = status]
                           ELSE applications
        /\ UNCHANGED <<authVars, resetLinks, reviews, nextAppId>>
        /\ UNCHANGED clientVars

\* DELETE /api/applications/:id
DeleteApplication(tok, id) ==
    LET auth == authenticateToken("delete", tok)
        out == IF ~Admitted(auth) THEN auth
               ELSE IF ~Has(applications, id)
               THEN Response("delete", 404, "Application not found", tok)
               ELSE IF tok.role = "applicant" /\ applications[id].user_id # tok.id
               THEN Response("delete", 403, "Access denied", tok)
               ELSE Response("delete", 200, "Application deleted", tok)
    IN  /\ res' = out
        /\ applications' = IF out.status = 200
                           THEN [a \in DOMAIN applications \ {id} |-> applications[a]]
                           ELSE applications
        /\ UNCHANGED <<authVars, resetLinks, reviews, nextAppId>>
        /\ UNCHANGED clientVars

\* POST /api/reviews; `complete` tells whether the body carries application_id,
\* rating and recommendation
PostReview(tok, id, complete) ==
    LET auth == authenticateToken("review", tok)
        out == IF ~Admitted(auth) THEN auth
               ELSE IF tok.role \notin Staff
               THEN Response("review", 403, "Admin or officer access required", tok)
               ELSE IF ~complete
               THEN Response("review", 400, "Application ID, rating, and recommendation are required", tok)
               ELSE IF ~Has(applications, id)
               THEN Response("review", 404, "Application not found", tok)
               ELSE IF id \in reviews
               THEN Response("review", 400, "A review already exists for this application", tok)
               ELSE Response("review", 201, "Review submitted", tok)
    IN  /\ res' = out
        /\ IF out.status = 201
           THEN /\ reviews' = reviews \cup {id}
                /\ applications' = [applications EXCEPT ![id].status = "under_review"]
           ELSE UNCHANGED <<applications, reviews>>
        /\ UNCHANGED <<authVars, resetLinks, nextAppId>>
        /\ UNCHANGED clientVars

----------------------------------------------------------------------------
(* The clock.  Time jumps to the instants around the deadlines the state    *)
(* holds (just before, at, just after), which are the only instants where  *)
(* a handler's outcome can change.                                         *)

Around(d) == {d - 1, d, d + 1}

WindowDeadlines == {loginAttempts[e].resetTime : e \in DOMAIN loginAttempts}
TokenDeadlines == {t.exp * 1000 : t \in issued}
ResetDeadlines == {t.exp * 1000 : t \in resetLinks}

Advance(deadlines, limit) ==
    /\ \E d \in deadlines : \E t \in Around(d) :
          /\ t > now
          /\ t <= limit
          /\ now' = t
    /\ UNCHANGED <<users, activeSessions, sessionTokenVersions, loginAttempts,
                   inflight, issued, nextJti, nextUserId, res>>
    /\ UNCHANGED <<dataVars, clientVars>>

----------------------------------------------------------------------------
(* What clients can submit *)

Presentable == issued \cup {NoToken, Malformed, Forged}

\* The suspended handlers that will issue a token when they resume
WillIssue(r) ==
    \/ r.op = "register"
    \/ r.op = "login" /\ BcryptCompare(r.password, r.user.password)

Issuing == BagCardinality([r \in {x \in BagToSet(inflight) : WillIssue(x)} |-> inflight[r]])

\* A handler starts while the model has room for a suspended handler and,
\* when it is going to issue a token, a fresh jwtid for it
Room(maxJti, issues) ==
    /\ BagCardinality(inflight) < MaxInflight
    /\ issues => nextJti + Issuing <= maxJti

GoodLogin(e, p) == \E u \in users : u.email = e /\ BcryptCompare(p, u.password)

----------------------------------------------------------------------------
(* Spec: the session registry under concurrent logins, logouts,            *)
(* registration and the sweep.                                             *)

Next ==
    \/ Room(MaxJti, TRUE) /\ LoginBegin("student@email.com", "student123")
    \/ \E r \in BagToSet(inflight) : LoginResume(r)
    \/ \E t \in Presentable : Logout(t)
    \/ Sweep
    \/ /\ Room(MaxJti, TRUE)
       /\ nextUserId < 4 + MaxRegistrations
       /\ RegisterBegin("new@college.edu", "newpass123", "applicant")
    \/ \E r \in BagToSet(inflight) : RegisterResume(r)

Spec == Init /\ [][Next]_vars

----------------------------------------------------------------------------
(* SpecThrottle: the login throttle under concurrent attempts and a clock  *)
(* that runs through the attempt windows.                                  *)

ThrottleEmails == {"student@email.com", "x@y.com"}
ThrottlePasswords == {"student123", "wrong-password", ""}

NextThrottle ==
    \/ \E e \in ThrottleEmails, p \in ThrottlePasswords :
          Room(MaxThrottleTokens, GoodLogin(e, p)) /\ LoginBegin(e, p)
    \/ \E r \in BagToSet(inflight) : LoginResume(r)
    \/ Advance(WindowDeadlines, MaxWindows * windowMs + 2)

SpecThrottle == Init /\ [][NextThrottle]_vars

----------------------------------------------------------------------------
(* SpecGate: the throttle gate of one account, under right and wrong       *)
(* passwords, concurrent attempts and the passing of the window.           *)

NextGate ==
    \/ \E p \in {"student123", "wrong-password"} :
          /\ Room(MaxThrottleTokens, GoodLogin("student@email.com", p))
          /\ LoginBegin("student@email.com", p)
    \/ \E r \in BagToSet(inflight) : LoginResume(r)
    \/ Advance(WindowDeadlines, MaxWindows * windowMs + 2)

SpecGate == Init /\ [][NextGate]_vars

----------------------------------------------------------------------------
(* SpecKeys: the throttle under attempts for an account and for an address *)
(* that has no account.                                                    *)

NextKeys ==
    \/ \E e \in ThrottleEmails :
          /\ Room(MaxThrottleTokens, FALSE)
          /\ LoginBegin(e, "wrong-password")
    \/ \E r \in BagToSet(inflight) : LoginResume(r)
    \/ Advance(WindowDeadlines, MaxWindows * windowMs + 2)

SpecKeys == Init /\ [][NextKeys]_vars

----------------------------------------------------------------------------
(* SpecToken: request validation over the lifetime of tokens.              *)

NextToken ==
    \/ Room(MaxTokens, TRUE) /\ LoginBegin("student@email.com", "student123")
    \/ \E r \in BagToSet(inflight) : LoginResume(r)
    \/ \E t \in Presentable : Me(t)
    \/ \E t \in Presentable : Logout(t)
    \/ Advance(TokenDeadlines, MaxDays * expiresIn * 1000 + 2)

SpecToken == Init /\ [][NextToken]_vars

----------------------------------------------------------------------------
(* SpecAdmin: SpecToken plus the forced invalidation of a principal's      *)
(* sessions.  The server has no route that changes sessionTokenVersions    *)
(* after registration; bumpVersion is the primitive the design describes.  *)

bumpVersion(uid) ==
    /\ VersionOrDefault(uid) < MaxVersion
    /\ sessionTokenVersions' = MapSet(sessionTokenVersions, uid, VersionOrDefault(uid) + 1)
    /\ UNCHANGED <<now, users, activeSessions, loginAttempts, inflight, issued,
                   nextJti, nextUserId, res>>
    /\ UNCHANGED <<dataVars, clientVars>>

NextAdmin ==
    \/ Room(MaxTokens, TRUE) /\ LoginBegin("student@email.com", "student123")
    \/ \E r \in BagToSet(inflight) : LoginResume(r)
    \/ \E t \in Presentable : Me(t)
    \/ \E u \in {3} : bumpVersion(u)
    \/ Advance(TokenDeadlines, MaxDays * expiresIn * 1000 + 2)

SpecAdmin == Init /\ [][NextAdmin]_vars

----------------------------------------------------------------------------
(* SpecApi: the token-gated routes next to login and registration, over    *)
(* the lifetime of the tokens.                                             *)

ApplicationBodies == {"complete", "incomplete", "no-program"}

NextApi ==
    \/ Room(MaxThrottleTokens, TRUE) /\ LoginBegin("student@email.com", "student123")
    \/ \E r \in BagToSet(inflight) : LoginResume(r)
    \/ \E t \in Presentable : Me(t)
    \/ \E t \in Presentable : Logout(t)
    \/ \E t \in Presentable : GetApplications(t)
    \/ \E t \in Presentable : DashboardStats(t)
    \/ \E t \in Presentable, b \in ApplicationBodies :
          nextAppId <= MaxApps /\ PostApplication(t, b)
    \/ Advance(TokenDeadlines, MaxDays * expiresIn * 1000 + 2)

SpecApi == Init /\ [][NextApi]_vars

----------------------------------------------------------------------------
(* SpecIssue: every way a request can ask for a session token: logins with *)
(* right and wrong passwords up to the throttle, registration, and         *)
(* requests that present a token, fresh, logged out or expired.            *)

NextIssue ==
    \/ \E p \in {"student123", "wrong-password"} :
          /\ Room(MaxThrottleTokens, GoodLogin("student@email.com", p))
          /\ LoginBegin("student@email.com", p)
    \/ \E r \in BagToSet(inflight) : LoginResume(r)
    \/ /\ Room(MaxThrottleTokens, TRUE)
       /\ nextUserId < 4 + MaxRegistrations
       /\ RegisterBegin("new@college.edu", "newpass123", "applicant")
    \/ \E r \in BagToSet(inflight) : RegisterResume(r)
    \/ \E t \in Presentable : Me(t)
    \/ \E t \in Presentable : Logout(t)
    \/ Advance(TokenDeadlines, MaxDays * expiresIn * 1000 + 2)

SpecIssue == Init /\ [][NextIssue]_vars

----------------------------------------------------------------------------
(* SpecReset: requests that present a session token or the token of a      *)
(* reset link to the token-gated routes, over the lifetime of both.        *)

NextReset ==
    \/ Room(MaxThrottleTokens, TRUE) /\ LoginBegin("student@email.com", "student123")
    \/ \E r \in BagToSet(inflight) : LoginResume(r)
    \/ \E e \in {"student@email.com", "x@y.com", ""} :
          Cardinality(resetLinks) < MaxResetLinks /\ ForgotPassword(e)
    \/ \E t \in Presentable \cup resetLinks : Me(t)
    \/ \E t \in Presentable \cup resetLinks : GetApplications(t)
    \/ \E t \in Presentable \cup resetLinks : Logout(t)
    \/ Advance(TokenDeadlines \cup ResetDeadlines, MaxDays * expiresIn * 1000 + 2)

SpecReset == Init /\ [][NextReset]_vars

----------------------------------------------------------------------------
(* SpecRoles: role changes and requests to the admin-only routes by the    *)
(* seeded admin and officer.                                               *)

NextRoles ==
    \/ \E e \in {"admin@college.edu", "officer@college.edu"} :
          \E u \in UserByEmail(e) :
             /\ Room(MaxThrottleTokens, TRUE)
             /\ LoginBegin(e, u.password)
    \/ \E r \in BagToSet(inflight) : LoginResume(r)
    \/ \E t \in issued \cup {NoToken} : GetUsers(t)
    \/ \E t \in issued \cup {NoToken}, u \in users, role \in Roles \cup {"superuser"} :
          PutUserRole(t, u.id, role)

SpecRoles == Init /\ [][NextRoles]_vars

----------------------------------------------------------------------------
(* SpecRegister: registration with every role a body can carry, and what   *)
(* the registered principal can do with its token.                         *)

BodyRoles == Roles \cup {Undefined, "superuser"}

\* const { role = 'applicant' } = req.body
RoleOrDefault(role) == IF role = Undefined THEN "applicant" ELSE role

NextRegister ==
    \/ \E role \in BodyRoles :
          /\ Room(MaxThrottleTokens, TRUE)
          /\ nextUserId < 4 + MaxRegistrations
          /\ RegisterBegin("new@college.edu", "newpass123", RoleOrDefault(role))
    \/ \E r \in BagToSet(inflight) : RegisterResume(r)
    \/ \E t \in issued \cup {NoToken} : GetUsers(t)
    \/ \E t \in issued \cup {NoToken}, u \in users, role \in Roles \cup {"superuser"} :
          PutUserRole(t, u.id, role)

SpecRegister == Init /\ [][NextRegister]_vars

----------------------------------------------------------------------------
(* SpecOwners: logins and logouts of two principals side by side.          *)

NextOwners ==
    \/ \E e \in {"student@email.com", "officer@college.edu"} :
          \E u \in UserByEmail(e) :
             /\ Room(MaxTokens + 1, TRUE)
             /\ LoginBegin(e, u.password)
    \/ \E r \in BagToSet(inflight) : LoginResume(r)
    \/ \E t \in Presentable : Logout(t)

SpecOwners == Init /\ [][NextOwners]_vars

----------------------------------------------------------------------------
(* SpecEvict: tokens that leave the registry, by logout and by the login   *)
(* that goes over the limit, while requests that present them are answered *)
(* or are suspended in the password handler.                               *)

\* one password change at a time
PasswordSuspended == \E r \in BagToSet(inflight) : r.op = "password"

NextEvict ==
    \/ Room(MaxEvictJti, TRUE) /\ LoginBegin("student@email.com", "student123")
    \/ \E r \in BagToSet(inflight) : LoginResume(r)
    \/ \E t \in issued : Me(t)
    \/ \E t \in issued : Logout(t)
    \/ Sweep
    \/ \E t \in issued, c \in {"student123", "wrong-password"} :
          /\ Room(MaxEvictJti, FALSE)
          /\ ~PasswordSuspended
          /\ Live(t)
          /\ PasswordBegin(t, c, "student123")
    \/ \E r \in BagToSet(inflight) : PasswordResume(r)

SpecEvict == Init /\ [][NextEvict]_vars

----------------------------------------------------------------------------
(* SpecApps: the life of an application under requests of an applicant and *)
(* of an officer.                                                          *)

AppIds == 1..MaxApps
BodyStatuses == validStatuses \cup {"waitlisted"}

NextApps ==
    \/ \E e \in {"student@email.com", "officer@college.edu"} :
          \E u \in UserByEmail(e) :
             /\ Room(MaxTokens, TRUE)
             /\ IssuedTo(u.id) = {}
             /\ LoginBegin(e, u.password)
    \/ \E r \in BagToSet(inflight) : LoginResume(r)
    \/ \E t \in issued : nextAppId <= MaxApps /\ PostApplication(t, "complete")
    \/ \E t \in issued \cup {NoToken}, a \in AppIds, st \in BodyStatuses :
          PutApplicationStatus(t, a, st)
    \/ \E t \in issued \cup {NoToken}, a \in AppIds,
          st \in BodyStatuses \cup {Undefined}, o \in BOOLEAN :
          PutApplication(t, a, st, o)
    \/ \E t \in issued, a \in AppIds : DeleteApplication(t, a)
    \/ \E t \in issued, a \in AppIds, c \in BOOLEAN : PostReview(t, a, c)

SpecApps == Init /\ [][NextApps]_vars

----------------------------------------------------------------------------
(* Client: AuthProvider's idle tracker.  The browser runs one callback at   *)
(* a time; a timer fires when the clock reaches its due time, and the      *)
(* clock does not pass a pending timer's due time.  A state change of      *)
(* `user` re-renders the provider, and the render's effects (the cleanup   *)
(* of the activity-listener effect) are part of the step.                  *)

\* The user object the server answers with carries the role of its row
RoleOf(u) == (CHOOSE row \in SeedUsers : row.email = u).role

isAuthenticated(u) == u # NoUser
isAdmin(u) == u # NoUser /\ RoleOf(u) = "admin"

\* AppRoutes: the wrapper of each path; "*" is the NotFound route
PublicPaths == {"/login"}
ProtectedPaths == {"/dashboard", "/applications", "/reports", "/reviews"}
AdminPaths == {"/users", "/settings"}
NotFoundPaths == {"/nowhere"}
Paths == PublicPaths \cup ProtectedPaths \cup AdminPaths \cup NotFoundPaths

\* What a wrapper renders: "spinner", "children", or the path of a
\* <Navigate replace>
ProtectedRouteMutant(u, ld) ==
    IF ld THEN "spinner" ELSE "children"
ProtectedRoute(u, ld) ==
    IF ld THEN "spinner"
    ELSE IF ~isAuthenticated(u) THEN "/login"
    ELSE "children"

AdminRouteMutant(u, ld) ==
    IF ld THEN "spinner"
    ELSE IF ~isAuthenticated(u) THEN "/login"
    ELSE "children"
AdminRoute(u, ld) ==
    IF ld THEN "spinner"
    ELSE IF ~isAuthenticated(u) THEN "/login"
    ELSE IF ~isAdmin(u) THEN "/dashboard"
    ELSE "children"

PublicRoute(u, ld) ==
    IF ld THEN "spinner"
    ELSE IF isAuthenticated(u) THEN "/dashboard"
    ELSE "children"

\* The element AppRoutes renders at a path
Element(path, u, ld) ==
    IF path \in PublicPaths THEN PublicRoute(u, ld)
    ELSE IF path \in ProtectedPaths THEN ProtectedRoute(u, ld)
    ELSE IF path \in AdminPaths THEN AdminRoute(u, ld)
    ELSE "children"

\* location.state: null, or what a <Navigate> passed
NullState == [unauthorized |-> FALSE, returnTo |-> ""]

\* The state prop of the <Navigate> that the wrapper of a path renders
NavigateState(path, u) ==
    IF path \in PublicPaths THEN NullState
    ELSE IF ~isAuthenticated(u) THEN [unauthorized |-> FALSE, returnTo |-> path]
    ELSE [unauthorized |-> TRUE, returnTo |-> ""]

\* The location the router rests on once every <Navigate> rendered has run
RECURSIVE SettleLoc(_, _, _, _)
SettleLoc(path, st, u, ld) ==
    IF Element(path, u, ld) \in {"spinner", "children"}
    THEN [path |-> path, state |-> st]
    ELSE SettleLoc(Element(path, u, ld), NavigateState(path, u), u, ld)

Settle(path, u, ld) == SettleLoc(path, NullState, u, ld).path

\* The router goes to a path with a state and comes to rest
Land(path, st, u, ld) ==
    /\ location' = SettleLoc(path, st, u, ld).path
    /\ locationState' = SettleLoc(path, st, u, ld).state

\* What the screen shows: the spinner, or the page of the path
Page(path, u, ld) ==
    IF Element(path, u, ld) = "children" THEN path ELSE Element(path, u, ld)

Timer(id, kind, due, endTime) ==
    [id |-> id, kind |-> kind, due |-> due, endTime |-> endTime]

ClearRefsMutant(pending) ==
    {tm \in pending : tm.id \notin {timeoutRef, countdownIntervalRef}}
\* clearTimeout / clearInterval of the ids the three refs hold
ClearRefs(pending) ==
    {tm \in pending :
        tm.id \notin {timeoutRef, warningTimeoutRef, countdownIntervalRef}}

\* resetTimeout: the timers pending after the clears and the two setTimeout
RescheduledMutant(pending) ==
    pending \cup
       { Timer(nextTimerId, "warning",
               clock + (SESSION_TIMEOUT - WARNING_BEFORE_TIMEOUT), 0),
         Timer(nextTimerId + 1, "logout", clock + SESSION_TIMEOUT, 0) }
Rescheduled(pending) ==
    ClearRefs(pending) \cup
       { Timer(nextTimerId, "warning",
               clock + (SESSION_TIMEOUT - WARNING_BEFORE_TIMEOUT), 0),
         Timer(nextTimerId + 1, "logout", clock + SESSION_TIMEOUT, 0) }

resetTimeoutMutant(pending) ==
    /\ lastActivityRef' = clock
    /\ showTimeoutWarning' = showTimeoutWarning
    /\ timers' = Rescheduled(pending)
    /\ warningTimeoutRef' = nextTimerId
    /\ timeoutRef' = nextTimerId + 1
    /\ nextTimerId' = nextTimerId + 2
    /\ UNCHANGED countdownIntervalRef
\* resetTimeout, called with the timers still pending at the call
resetTimeout(pending) ==
    /\ lastActivityRef' = clock
    /\ showTimeoutWarning' = FALSE
    /\ timers' = Rescheduled(pending)
    /\ warningTimeoutRef' = nextTimerId
    /\ timeoutRef' = nextTimerId + 1
    /\ nextTimerId' = nextTimerId + 2
    /\ UNCHANGED countdownIntervalRef

\* two timer ids for resetTimeout, one kept for the countdown it leads to
TimerIdsLeft == nextTimerId + 2 <= MaxTimerId

\* handleActivity: mousedown, keydown, touchstart, scroll
Activity ==
    /\ IF user # NoUser
       THEN /\ TimerIdsLeft
            /\ resetTimeout(timers)
       ELSE UNCHANGED <<lastActivityRef, showTimeoutWarning, timers,
                        warningTimeoutRef, timeoutRef, nextTimerId,
                        countdownIntervalRef>>
    /\ UNCHANGED <<clock, user, storage, remainingTime, logoutCalls>>
    /\ UNCHANGED <<routerVars, pings, hookVars, serverVars>>

\* The callback of the warning timer, and startCountdown
WarningFires ==
    \E tm \in timers :
       /\ tm.kind = "warning"
       /\ tm.due <= clock
       /\ IF clock - lastActivityRef < SESSION_TIMEOUT - WARNING_BEFORE_TIMEOUT
          THEN /\ resetTimeout(timers \ {tm})
               /\ UNCHANGED remainingTime
          ELSE /\ showTimeoutWarning' = TRUE
               /\ remainingTime' = WARNING_BEFORE_TIMEOUT
               /\ timers' = (timers \ {tm}) \cup
                     {Timer(nextTimerId, "countdown", clock + countdownMs,
                            clock + WARNING_BEFORE_TIMEOUT)}
               /\ countdownIntervalRef' = nextTimerId
               /\ nextTimerId' = nextTimerId + 1
               /\ UNCHANGED <<lastActivityRef, warningTimeoutRef, timeoutRef>>
       /\ UNCHANGED <<clock, user, storage, logoutCalls>>
       /\ UNCHANGED <<routerVars, pings, hookVars, serverVars>>

\* The callback of the countdown interval
CountdownTick ==
    \E tm \in timers :
       /\ tm.kind = "countdown"
       /\ tm.due <= clock
       /\ LET remaining == Max(0, CeilDiv(tm.endTime - clock, 1000))
              again == (timers \ {tm}) \cup {[tm EXCEPT !.due = @ + countdownMs]}
          IN  /\ remainingTime' = remaining * 1000
              /\ timers' = IF remaining <= 0
                           THEN {x \in again : x.id # countdownIntervalRef}
                           ELSE again
       /\ UNCHANGED <<clock, user, storage, showTimeoutWarning, timeoutRef,
                      warningTimeoutRef, countdownIntervalRef, lastActivityRef,
                      nextTimerId, logoutCalls>>
       /\ UNCHANGED <<routerVars, pings, hookVars, serverVars>>

\* The callback of the logout timer: logout() runs up to its await
LogoutFires ==
    \E tm \in timers :
       /\ tm.kind = "logout"
       /\ tm.due <= clock
       /\ timers' = timers \ {tm}
       /\ logoutCalls' = logoutCalls + 1
       /\ showTimeoutWarning' = FALSE
       /\ UNCHANGED <<clock, user, storage, remainingTime, timeoutRef,
                      warningTimeoutRef, countdownIntervalRef, lastActivityRef,
                      nextTimerId>>
       /\ UNCHANGED <<routerVars, pings, hookVars, serverVars>>

\* Layout's handleLogout: logout() runs up to its await
ManualLogout ==
    /\ user # NoUser
    /\ Page(location, user, loading) \in ProtectedPaths \cup AdminPaths
    /\ logoutCalls < MaxLogoutCalls
    /\ logoutCalls' = logoutCalls + 1
    /\ Land("/login", NullState, user, loading)
    /\ UNCHANGED <<clock, user, storage, showTimeoutWarning, remainingTime,
                   timeoutRef, warningTimeoutRef, countdownIntervalRef,
                   lastActivityRef, timers, nextTimerId, loading>>
    /\ UNCHANGED <<pings, hookVars, serverVars>>

\* How a fetch settles: the promise resolves (with any status) or rejects
FetchOutcomes == {"resolved", "rejected"}

\* logout() after its fetch settled, either way; setUser(null) re-renders
\* when the user changes: the effect cleanup clears the refs' timers and the
\* route wrappers run again
LogoutDoneMutant(outcome) ==
    /\ logoutCalls > 0
    /\ logoutCalls' = logoutCalls - 1
    /\ storage' = IF outcome = "rejected" THEN storage ELSE NoUser
    /\ user' = IF outcome = "rejected" THEN user ELSE NoUser
    /\ timers' = IF user # NoUser /\ user' = NoUser THEN ClearRefs(timers) ELSE timers
    /\ Land(location, locationState, user', loading)
    /\ UNCHANGED <<clock, showTimeoutWarning, remainingTime, timeoutRef,
                   warningTimeoutRef, countdownIntervalRef, lastActivityRef,
                   nextTimerId, loading>>
    /\ UNCHANGED <<pings, hookVars, serverVars>>
LogoutDone(outcome) ==
    /\ logoutCalls > 0
    /\ outcome \in FetchOutcomes
    /\ logoutCalls' = logoutCalls - 1
    /\ storage' = NoUser
    /\ user' = NoUser
    /\ timers' = IF user # NoUser THEN ClearRefs(timers) ELSE timers
    /\ Land(location, locationState, NoUser, loading)
    /\ UNCHANGED <<clock, showTimeoutWarning, remainingTime, timeoutRef,
                   warningTimeoutRef, countdownIntervalRef, lastActivityRef,
                   nextTimerId, loading>>
    /\ UNCHANGED <<pings, hookVars, serverVars>>

\* login() after its fetch answered ok; setUser(data.user) re-renders
ClientLogin(u) ==
    /\ user = NoUser
    /\ Page(location, user, loading) = "/login"
    /\ storage' = u
    /\ user' = u
    /\ timers' = ClearRefs(timers)
    /\ Land(location, locationState, u, loading)
    /\ UNCHANGED <<clock, showTimeoutWarning, remainingTime, timeoutRef,
                   warningTimeoutRef, countdownIntervalRef, lastActivityRef,
                   nextTimerId, logoutCalls, loading>>
    /\ UNCHANGED <<pings, hookVars, serverVars>>

\* A link or a history navigation inside the running app
Navigate(path) ==
    /\ Land(path, NullState, user, loading)
    /\ UNCHANGED <<clock, user, storage, showTimeoutWarning, remainingTime,
                   timeoutRef, warningTimeoutRef, countdownIntervalRef,
                   lastActivityRef, timers, nextTimerId, logoutCalls, loading>>
    /\ UNCHANGED <<pings, hookVars, serverVars>>

\* A page load at a path: a new document, AuthProvider mounts with its
\* initial state and validateToken runs up to its await, or to its end when
\* localStorage holds no token
Goto(path) ==
    /\ user' = NoUser
    /\ loading' = (storage # NoUser)
    /\ Land(path, NullState, NoUser, storage # NoUser)
    /\ showTimeoutWarning' = FALSE
    /\ remainingTime' = 0
    /\ timeoutRef' = 0
    /\ warningTimeoutRef' = 0
    /\ countdownIntervalRef' = 0
    /\ lastActivityRef' = clock
    /\ timers' = {}
    /\ nextTimerId' = 1
    /\ logoutCalls' = 0
    /\ pings' = << >>
    /\ isSubmitting' = FALSE
    /\ renderedSubmitting' = FALSE
    /\ submitCountRef' = 0
    /\ submissions' = {}
    /\ lockResult' = "none"
    /\ UNCHANGED <<clock, storage>>
    /\ UNCHANGED serverVars

\* validateToken after its fetch of /api/auth/me settled: response.ok, or a
\* status outside 2xx or a network error.  setUser and setLoading re-render
\* after resetTimeout has run, and the cleanup of the activity effect then
\* clears the timers the refs hold.
ValidateDone(ok) ==
    /\ loading
    /\ loading' = FALSE
    /\ IF ok
       THEN /\ user' = storage
            /\ storage' = storage
            /\ lastActivityRef' = clock
            /\ showTimeoutWarning' = FALSE
            /\ warningTimeoutRef' = nextTimerId
            /\ timeoutRef' = nextTimerId + 1
            /\ nextTimerId' = nextTimerId + 2
            /\ timers' = {tm \in Rescheduled(timers) :
                             tm.id \notin {nextTimerId, nextTimerId + 1,
                                           countdownIntervalRef}}
       ELSE /\ user' = NoUser
            /\ storage' = NoUser
            /\ UNCHANGED <<lastActivityRef, showTimeoutWarning, warningTimeoutRef,
                           timeoutRef, nextTimerId, timers>>
    /\ Land(location, locationState, user', FALSE)
    /\ UNCHANGED <<clock, remainingTime, countdownIntervalRef, logoutCalls>>
    /\ UNCHANGED <<pings, hookVars, serverVars>>

\* extendSession: the button of the timeout warning; with a stored token
\* it starts a fetch of /api/auth/me, whose promise nothing awaits
extendSession ==
    /\ showTimeoutWarning
    /\ TimerIdsLeft
    /\ resetTimeout(timers)
    /\ pings' = IF storage # NoUser THEN Append(pings, "pending") ELSE pings
    /\ UNCHANGED <<clock, user, storage, remainingTime, logoutCalls>>
    /\ UNCHANGED <<routerVars, hookVars, serverVars>>

PingDoneMutant(i, outcome) ==
    /\ i \in DOMAIN pings
    /\ pings[i] = "pending"
    /\ pings' = [pings EXCEPT ![i] = outcome]
    /\ user' = IF outcome = "rejected" THEN NoUser ELSE user
    /\ storage' = IF outcome = "rejected" THEN NoUser ELSE storage
    /\ timers' = IF outcome = "rejected" THEN ClearRefs(timers) ELSE timers
    /\ UNCHANGED <<clock, showTimeoutWarning, remainingTime,
                   timeoutRef, warningTimeoutRef, countdownIntervalRef,
                   lastActivityRef, nextTimerId, logoutCalls>>
    /\ UNCHANGED <<routerVars, hookVars, serverVars>>
\* The fetch of extendSession settles: no then-callback is attached, and the
\* catch-callback is empty
PingDone(i, outcome) ==
    /\ i \in DOMAIN pings
    /\ pings[i] = "pending"
    /\ outcome \in FetchOutcomes
    /\ pings' = [pings EXCEPT ![i] = outcome]
    /\ UNCHANGED <<clock, user, storage, showTimeoutWarning, remainingTime,
                   timeoutRef, warningTimeoutRef, countdownIntervalRef,
                   lastActivityRef, timers, nextTimerId, logoutCalls>>
    /\ UNCHANGED <<routerVars, hookVars, serverVars>>

\* Time passes in the browser: up to the next timer, or by an idle stretch
IdleStep == 10 * 60 * 1000

NextDue(t) == \A tm \in timers : t <= tm.due

Tick ==
    /\ \E t \in {tm.due : tm \in timers} \cup {clock + IdleStep} :
          /\ t > clock
          /\ t <= MaxClock
          /\ NextDue(t)
          /\ clock' = t
    /\ UNCHANGED <<user, storage, showTimeoutWarning, remainingTime, timeoutRef,
                   warningTimeoutRef, countdownIntervalRef, lastActivityRef,
                   timers, nextTimerId, logoutCalls>>
    /\ UNCHANGED <<routerVars, pings, hookVars, serverVars>>

NextIdle ==
    \/ \E u \in {"student@email.com"} : ClientLogin(u)
    \/ Activity
    \/ WarningFires
    \/ CountdownTick
    \/ LogoutFires
    \/ ManualLogout
    \/ \E o \in FetchOutcomes : LogoutDone(o)
    \/ extendSession
    \/ Tick

SpecIdle == Init /\ [][NextIdle]_vars

----------------------------------------------------------------------------
(* SpecExtend: the idle tracker with the fetch that extendSession starts   *)
(* and its two ways of settling.                                           *)

NextExtend ==
    \/ \E u \in {"student@email.com"} : ClientLogin(u)
    \/ Activity
    \/ WarningFires
    \/ CountdownTick
    \/ LogoutFires
    \/ \E o \in {"resolved"} : LogoutDone(o)
    \/ Len(pings) < MaxPings /\ extendSession
    \/ \E i \in DOMAIN pings, o \in FetchOutcomes : PingDone(i, o)
    \/ Tick

SpecExtend == Init /\ [][NextExtend]_vars

----------------------------------------------------------------------------
(* useSubmitLock.  lockSubmit is created by useCallback with isSubmitting  *)
(* as its dependency: the function a caller holds reads the isSubmitting   *)
(* of the render that created it.  setIsSubmitting takes effect on the     *)
(* next render.                                                            *)

authClientVars == <<clock, user, storage, showTimeoutWarning, remainingTime,
                    timeoutRef, warningTimeoutRef, countdownIntervalRef,
                    lastActivityRef, timers, nextTimerId, logoutCalls, pings,
                    routerVars>>

\* lockSubmit(asyncFunction), up to the await of asyncFunction()
lockSubmit ==
    /\ IF renderedSubmitting
       THEN /\ lockResult' = "null"
            /\ UNCHANGED <<isSubmitting, submitCountRef, submissions>>
       ELSE /\ submitCountRef' = submitCountRef + 1
            /\ isSubmitting' = TRUE
            /\ submissions' = submissions \cup {submitCountRef + 1}
            /\ lockResult' = "invoked"
    /\ UNCHANGED renderedSubmitting
    /\ UNCHANGED <<authClientVars, serverVars>>

\* The component re-renders: useCallback makes a lockSubmit over the new state
Render ==
    /\ renderedSubmitting # isSubmitting
    /\ renderedSubmitting' = isSubmitting
    /\ UNCHANGED <<isSubmitting, submitCountRef, submissions, lockResult>>
    /\ UNCHANGED <<authClientVars, serverVars>>

\* asyncFunction() settles, returning or throwing: lockSubmit goes on after
\* its await
SubmitSettles(currentSubmit, outcome) ==
    /\ currentSubmit \in submissions
    /\ outcome \in FetchOutcomes
    /\ submissions' = submissions \ {currentSubmit}
    /\ isSubmitting' = IF submitCountRef = currentSubmit THEN FALSE ELSE isSubmitting
    /\ lockResult' = outcome
    /\ UNCHANGED <<renderedSubmitting, submitCountRef>>
    /\ UNCHANGED <<authClientVars, serverVars>>

\* reset()
reset ==
    /\ isSubmitting' = FALSE
    /\ lockResult' = "reset"
    /\ UNCHANGED <<renderedSubmitting, submitCountRef, submissions>>
    /\ UNCHANGED <<authClientVars, serverVars>>

NextSubmit ==
    \/ submitCountRef < MaxSubmits /\ lockSubmit
    \/ Render
    \/ \E c \in submissions, o \in FetchOutcomes : SubmitSettles(c, o)
    \/ isSubmitting /\ reset

SpecSubmit == Init /\ [][NextSubmit]_vars

----------------------------------------------------------------------------
(* SpecTimers: every path to resetTimeout and to the effect cleanup:       *)
(* activity, extend session, the timers' callbacks, login, the logout      *)
(* the logout timer starts, and page loads, which mount a new AuthProvider *)
(* that validates the stored token.  A page is not reloaded while a        *)
(* logout() call awaits its fetch.                                         *)

NextTimers ==
    \/ \E u \in {"student@email.com"} : ClientLogin(u)
    \/ Activity
    \/ WarningFires
    \/ CountdownTick
    \/ LogoutFires
    \/ \E o \in {"resolved"} : LogoutDone(o)
    \/ extendSession
    \/ Tick
    \/ \E p \in {"/dashboard"} : logoutCalls = 0 /\ Goto(p)
    \/ \E ok \in BOOLEAN : TimerIdsLeft /\ ValidateDone(ok)

SpecTimers == Init /\ [][NextTimers]_vars

----------------------------------------------------------------------------
(* SpecRoutes: the router under logins of an applicant and of an admin,    *)
(* navigation inside the app (the paths the app links to), page loads at   *)
(* any path, and logout.                                                   *)

ClientUsers == {"student@email.com", "officer@college.edu", "admin@college.edu"}
LinkedPaths == PublicPaths \cup ProtectedPaths \cup AdminPaths

NextRoutes ==
    \/ \E u \in ClientUsers : ClientLogin(u)
    \/ \E p \in LinkedPaths : Navigate(p)
    \/ \E p \in Paths : logoutCalls = 0 /\ Goto(p)
    \/ \E ok \in BOOLEAN : ValidateDone(ok)
    \/ ManualLogout
    \/ \E o \in FetchOutcomes : LogoutDone(o)

SpecRoutes == Init /\ [][NextRoutes]_vars

\* Every fetch settles: a logout() call that awaits its fetch goes on
SpecLogout == SpecRoutes /\ WF_vars(\E o \in FetchOutcomes : LogoutDone(o))

----------------------------------------------------------------------------
(* Properties of the session registry *)


\* C1: a principal's registry set never holds more than
\* MAX_CONCURRENT_SESSIONS tokens, and a step that issues a token by login
\* appends it to the principal's set, removing exactly the earliest-registered
\* token when the set was full and nothing otherwise.
C1_BoundedFifo ==
    /\ [](\A uid \in DOMAIN activeSessions :
             Len(activeSessions[uid]) <= MAX_CONCURRENT_SESSIONS)
    /\ [][(nextJti' # nextJti /\ res'.route = "login") =>
            LET tok == res'.tok
                old == SessionsOf(tok.id)
            IN  /\ tok \notin Range(old)
                /\ activeSessions'[tok.id] =
                      IF Len(old) >= MAX_CONCURRENT_SESSIONS
                      THEN Tail(old) \o <<tok>>
                      ELSE old \o <<tok>>
                /\ \A u \in DOMAIN activeSessions :
                      u # tok.id => activeSessions'[u] = activeSessions[u]]_vars

\* Six logins of one principal: five tokens live, the first one issued is not
C1_Witness ==
    \E uid \in DOMAIN activeSessions :
        /\ Cardinality(IssuedTo(uid)) = MAX_CONCURRENT_SESSIONS + 1
        /\ Len(activeSessions[uid]) = MAX_CONCURRENT_SESSIONS
        /\ res.route = "login" /\ res.status = 200 /\ Live(res.tok)
        /\ \E t \in IssuedTo(uid) :
              /\ ~Live(t)
              /\ \A o \in IssuedTo(uid) : t.jti <= o.jti

\* C4: a logout that authenticateToken admits removes exactly the presented
\* token from its principal's set: the other tokens stay, in order, and are
\* admitted by request validation as before; other principals' sets and the
\* session versions do not change.
C4_LogoutRemovesOnlyPresented ==
    [][\A t \in Presentable :
          (Logout(t) /\ Admitted(authenticateToken("logout", t))) =>
             /\ DOMAIN activeSessions' = DOMAIN activeSessions
             /\ \A u \in DOMAIN activeSessions :
                   u # t.id => activeSessions'[u] = activeSessions[u]
             /\ activeSessions'[t.id] =
                   SelectSeq(activeSessions[t.id], LAMBDA x : x # t)
             /\ \A o \in Range(activeSessions[t.id]) \ {t} :
                   /\ o \in Range(activeSessions'[t.id])
                   /\ Admitted(authenticateToken("me", o))'
                        = Admitted(authenticateToken("me", o))
             /\ sessionTokenVersions' = sessionTokenVersions]_vars

\* A logout answered 200 whose token is gone while two siblings are live
C4_Witness ==
    /\ res.route = "logout" /\ res.status = 200
    /\ res.tok \in issued /\ ~Live(res.tok)
    /\ Len(SessionsOf(res.tok.id)) >= 2
    /\ Cardinality(IssuedTo(res.tok.id)) <= MAX_CONCURRENT_SESSIONS

----------------------------------------------------------------------------
(* Properties of request validation *)

ExpiryMs(t) == t.exp * 1000

\* C5: a token issued at clock second s carries exp = s + 24h, and
\* GET /api/auth/me presented with a token the server issued answers 200 at
\* every time before the token's expiry and rejects it at every time at or
\* after its expiry.
C5_ValidUntilExpiry ==
    /\ [][nextJti' # nextJti =>
            /\ res'.tok.iat = now \div 1000
            /\ res'.tok.exp = res'.tok.iat + 24 * 60 * 60]_vars
    /\ [][\A t \in issued : Me(t) =>
            /\ now < ExpiryMs(t) => res'.status = 200
            /\ now >= ExpiryMs(t) => res'.status \in {401, 403}]_vars

\* A token the server issued, rejected at the very millisecond of its expiry
C5_Witness ==
    /\ res.route = "me" /\ res.tok \in issued
    /\ res.status = 403 /\ now = ExpiryMs(res.tok)

\* C9 as claimed: on a protected route each failure kind has its own outcome
\* with status 401: no token, bad signature or structure, expired token.
C9_DistinctFailureKinds ==
    res.route \in {"me", "logout"} =>
       /\ res.tok = NoToken => res.status = 401 /\ res.message = MsgAuthRequired
       /\ res.tok \in {Malformed, Forged} =>
             res.status = 401 /\ res.message \notin {MsgAuthRequired, MsgSessionExpired}
       /\ (res.tok \in issued /\ res.status # 200) =>
             res.status = 401 /\ res.message = MsgSessionExpired

\* C10 as claimed: logout answers 200 in every case
C10_LogoutAlways200 == res.route = "logout" => res.status = 200

\* C10 amended: logout answers 200 exactly when the request carries a token
\* that authenticateToken admits (signed by the server and unexpired), 401
\* when it carries none and 403 otherwise; a logout whose token is not in
\* the principal's registry set leaves the registry unchanged and answers 200.
C10_LogoutStatus ==
    [][\A t \in Presentable : Logout(t) =>
          /\ res'.status = 200 <=> (t \in issued /\ now < ExpiryMs(t))
          /\ res'.status = 401 <=> t = NoToken
          /\ res'.status \in {200, 401, 403}
          /\ ~Live(t) => activeSessions' = activeSessions]_vars

\* An admitted logout of a token that is no longer registered, leaving the
\* sibling in place
C10_Witness ==
    /\ res.route = "logout" /\ res.status = 200
    /\ ~Live(res.tok)
    /\ Len(SessionsOf(res.tok.id)) = 1

\* C2 as claimed: after a bump of the principal's session version, a token
\* carrying an older version is rejected by GET /api/auth/me, and a token
\* carrying the current version is admitted while unexpired.
C2_BumpInvalidates ==
    [][\A t \in issued : Me(t) =>
          /\ t.sessionVersion # VersionOrDefault(t.id) => res'.status # 200
          /\ (t.sessionVersion = VersionOrDefault(t.id) /\ now < ExpiryMs(t))
                => res'.status = 200]_vars

----------------------------------------------------------------------------
(* Properties of the login throttle *)

\* C3 as claimed: with 5 or more failures recorded for the email, an attempt
\* at a time not later than the window reset is answered 429 with a retry
\* value above zero; an attempt after the window reset is not throttled and
\* starts from a count of zero.
C3_ThrottleWindow ==
    [][\A e \in ThrottleEmails, p \in ThrottlePasswords :
          (LoginBegin(e, p) /\ Has(loginAttempts, e)) =>
             /\ (loginAttempts[e].count >= 5 /\ now <= loginAttempts[e].resetTime)
                   => res'.status = 429 /\ res'.retryAfter > 0
             /\ now > loginAttempts[e].resetTime
                   => /\ ~(res'.route = "login" /\ res'.status = 429 /\ res' # res)
                      /\ loginAttempts'[e].count <= 1]_vars

\* C7 as claimed: the recorded count of an email never exceeds the maximum
C7_CountBounded ==
    \A e \in DOMAIN loginAttempts : loginAttempts[e].count <= maxAttempts

----------------------------------------------------------------------------
(* Properties of the client's idle tracker *)

Pending(kind) == {tm \in timers : tm.kind = kind}

\* The cycle started by an activity of the authenticated user is running:
\* the logout timer it scheduled is pending
Armed ==
    /\ user # NoUser
    /\ \E tm \in Pending("logout") : tm.id = timeoutRef

WarningAt == lastActivityRef + (SESSION_TIMEOUT - WARNING_BEFORE_TIMEOUT)
LogoutAt == lastActivityRef + SESSION_TIMEOUT

----------------------------------------------------------------------------
(* Properties of the token-gated routes *)

\* C11: a request without a bearer token to a token-gated route (GET and POST
\* /api/applications, GET /api/dashboard/stats, GET /api/auth/me, POST
\* /api/auth/logout) is answered 401 "Authentication required" by the
\* middleware, and the step changes neither the registry, the versions, the
\* login attempts nor the stored users, applications and reviews.
C11_NoTokenRejected ==
    [][(\/ Me(NoToken)
        \/ Logout(NoToken)
        \/ GetApplications(NoToken)
        \/ DashboardStats(NoToken)
        \/ \E b \in ApplicationBodies : PostApplication(NoToken, b)) =>
          /\ res'.status = 401
          /\ res'.message = MsgAuthRequired
          /\ res'.tok = NoToken
          /\ UNCHANGED <<authVars, dataVars>>]_vars

\* A complete application posted without a token was answered 401 while a
\* session exists and an application is stored, and there is room for more
C11_Witness ==
    /\ res = Response("apply", 401, MsgAuthRequired, NoToken)
    /\ issued # {}
    /\ nextAppId <= MaxApps

\* C12: the set of issued tokens grows only in the step that resumes a login
\* whose password matched, or a registration; a login that the throttle
\* rejects suspends no handler; and a request that presents a token (fresh,
\* logged out, expired, malformed or none) to /api/auth/me or
\* /api/auth/logout issues no token and answers with none.
C12_IssuedOnlyByLoginOrRegister ==
    /\ [][issued' # issued =>
            /\ \E r \in BagToSet(inflight) :
                  \/ LoginResume(r) /\ BcryptCompare(r.password, r.user.password)
                  \/ RegisterResume(r)
            /\ res'.route \in {"login", "register"}
            /\ issued' = issued \cup {res'.tok}]_vars
    /\ [][\A pw \in {"student123", "wrong-password"} :
            (LoginBegin("student@email.com", pw)
               /\ RateLimited(AttemptData("student@email.com"))) =>
                  /\ inflight' = inflight
                  /\ issued' = issued
                  /\ res'.status = 429]_vars
    /\ [][\A t \in Presentable : (Me(t) \/ Logout(t)) =>
            /\ issued' = issued
            /\ nextJti' = nextJti
            /\ res'.tok = t]_vars

\* The only token of its principal was presented after its expiry and after
\* its logout, and was rejected; no second token exists
C12_Witness ==
    /\ res.route = "me" /\ res.status = 403
    /\ res.tok \in issued
    /\ now >= ExpiryMs(res.tok)
    /\ ~Live(res.tok)
    /\ IssuedTo(res.tok.id) = {res.tok}

\* C20: whatever the token, a step of GET /api/auth/me, GET /api/applications
\* or GET /api/dashboard/stats leaves the registry, the versions and the
\* login attempts unchanged, and so does a step of any token-gated route that
\* the middleware rejects; an admitted logout changes nothing but the
\* registry set of the token's principal.
C20_ValidationReadOnly ==
    [][\A t \in Presentable :
          /\ (Me(t) \/ GetApplications(t) \/ DashboardStats(t)) =>
                UNCHANGED <<activeSessions, sessionTokenVersions, loginAttempts>>
          /\ ((\/ Logout(t)
               \/ \E b \in ApplicationBodies : PostApplication(t, b))
              /\ ~Admitted(authenticateToken("any", t))) =>
                /\ UNCHANGED <<activeSessions, sessionTokenVersions, loginAttempts>>
                /\ res'.status \in {401, 403}
          /\ Logout(t) =>
                /\ UNCHANGED <<sessionTokenVersions, loginAttempts>>
                /\ \A u \in DOMAIN activeSessions :
                      u # t.id => activeSessions'[u] = activeSessions[u]]_vars

\* An expired token was rejected by /api/auth/me and is still in the registry
C20_Witness ==
    /\ res.route = "me" /\ res.status = 403
    /\ res.tok \in issued
    /\ Live(res.tok)
    /\ now >= ExpiryMs(res.tok)

\* C18: a token the server issued that is not in its principal's registry
\* set (removed by logout or by the login over the limit; the sweep removes
\* none) is answered 200 by GET /api/auth/me while it is unexpired, and a
\* password change suspended at its await is answered by the outcome of the
\* password comparison alone, whether or not its token is still registered
\* when it resumes.
C18_RegistryNotConsulted ==
    /\ [][\A t \in issued :
            (Me(t) /\ ~Live(t) /\ now < ExpiryMs(t)) => res'.status = 200]_vars
    /\ [][\A r \in BagToSet(inflight) :
            (PasswordResume(r) /\ r.op = "password") =>
               /\ res'.route = "password"
               /\ res'.status = IF BcryptCompare(r.password, r.user.password)
                                THEN 200 ELSE 401
               /\ res'.status = 401 => res'.message = "Current password is incorrect"]_vars

\* Six logins have pushed the oldest token out of a full registry set,
\* and a password change made with that token was answered 200
C18_Witness ==
    /\ res.route = "password" /\ res.status = 200
    /\ ~Live(res.tok)
    /\ Len(SessionsOf(res.tok.id)) = MAX_CONCURRENT_SESSIONS
    /\ Cardinality(IssuedTo(res.tok.id)) > MAX_CONCURRENT_SESSIONS
    /\ \A o \in IssuedTo(res.tok.id) : res.tok.jti <= o.jti

----------------------------------------------------------------------------
(* Properties of the login throttle, continued *)

\* C19: a login step that finds the email's count at the maximum inside the
\* window answers 429, suspends no handler (no bcrypt.compare is started),
\* issues no token, leaves the registry unchanged and leaves the email's
\* count and window reset as they were, whatever password was submitted.
C19_ThrottledLoginInert ==
    [][\A e \in {"student@email.com"}, p \in {"student123", "wrong-password"} :
          (/\ LoginBegin(e, p)
           /\ Has(loginAttempts, e)
           /\ loginAttempts[e].count >= maxAttempts
           /\ now <= loginAttempts[e].resetTime) =>
              /\ res'.route = "login" /\ res'.status = 429
              /\ inflight' = inflight
              /\ issued' = issued /\ nextJti' = nextJti
              /\ activeSessions' = activeSessions
              /\ loginAttempts' = loginAttempts]_vars

\* The right password of the seeded applicant was answered 429
C19_Witness ==
    /\ res.route = "login" /\ res.status = 429
    /\ res.password = "student123"
    /\ Has(loginAttempts, "student@email.com")
    /\ loginAttempts["student@email.com"].count >= maxAttempts
    /\ issued = {}
    /\ activeSessions = << >>

\* C21: the step that ends a login whose password matched sets the email's
\* count to 0 and keeps its window-reset timestamp; the step that ends a
\* login whose password did not match raises the count by exactly one and
\* keeps the timestamp too.  (The window is rolled over only at the start of
\* a request that arrives after the timestamp.)
C21_AttemptCounting ==
    [][\A r \in BagToSet(inflight) :
          (LoginResume(r) /\ r.op = "login") =>
             /\ Has(loginAttempts, r.email)
             /\ DOMAIN loginAttempts' = DOMAIN loginAttempts
             /\ loginAttempts'[r.email].resetTime = loginAttempts[r.email].resetTime
             /\ IF BcryptCompare(r.password, r.user.password)
                THEN /\ loginAttempts'[r.email].count = 0
                     /\ res'.status = 200
                ELSE /\ loginAttempts'[r.email].count = loginAttempts[r.email].count + 1
                     /\ res'.status = 401]_vars

\* A login succeeded at the last millisecond of a window that earlier
\* attempts opened: the count is 0 and the window is the one opened at 0
C21_Witness ==
    /\ res.route = "login" /\ res.status = 200
    /\ Has(loginAttempts, "student@email.com")
    /\ loginAttempts["student@email.com"].count = 0
    /\ loginAttempts["student@email.com"].resetTime = windowMs
    /\ now = windowMs
    /\ inflight = EmptyBag

\* C22: a failed attempt raises the count of the submitted email by one
\* whether the email has an account (the step after the password comparison)
\* or not (the step of the request itself); either email is answered 429
\* once its count has reached the maximum inside its window; and no login
\* step changes the entry of an email other than the one submitted.
C22_KeyedByEmail ==
    /\ [][\A e \in ThrottleEmails :
            (LoginBegin(e, "wrong-password") /\ UserByEmail(e) = {}
               /\ ~RateLimited(AttemptData(e))) =>
                  /\ loginAttempts'[e].count = AttemptData(e).count + 1
                  /\ loginAttempts'[e].resetTime = AttemptData(e).resetTime
                  /\ res'.status = 401]_vars
    /\ [][\A r \in BagToSet(inflight) :
            (LoginResume(r) /\ r.op = "login") =>
                  /\ loginAttempts'[r.email].count = loginAttempts[r.email].count + 1
                  /\ loginAttempts'[r.email].resetTime = loginAttempts[r.email].resetTime
                  /\ res'.status = 401]_vars
    /\ [][\A e \in ThrottleEmails :
            (LoginBegin(e, "wrong-password") /\ Has(loginAttempts, e)
               /\ now <= loginAttempts[e].resetTime) =>
                  (loginAttempts[e].count >= maxAttempts <=>
                     (res'.route = "login" /\ res'.status = 429 /\ inflight' = inflight
                        /\ loginAttempts' = loginAttempts))]_vars
    /\ [][\A e \in ThrottleEmails :
            (LoginBegin(e, "wrong-password")
               \/ \E r \in BagToSet(inflight) : LoginResume(r) /\ r.email = e) =>
                  \A o \in DOMAIN loginAttempts \ {e} :
                     /\ Has(loginAttempts', o)
                     /\ loginAttempts'[o] = loginAttempts[o]]_vars

\* The address without an account is throttled while the account, with
\* failures of its own, is not
C22_Witness ==
    /\ res.route = "login" /\ res.status = 429
    /\ Has(loginAttempts, "x@y.com") /\ Has(loginAttempts, "student@email.com")
    /\ loginAttempts["x@y.com"].count = maxAttempts
    /\ loginAttempts["student@email.com"].count \in 1..(maxAttempts - 1)
    /\ UserByEmail("x@y.com") = {}

----------------------------------------------------------------------------
(* Properties of the applications *)

\* C17 as claimed: a step changes the status of a stored application to
\* under_review, accepted or rejected only when the request's token carries
\* the role admin or officer, and a request whose token carries the role
\* applicant changes a status only of an application of its own and only
\* from draft to submitted.
C17_StatusTransitions ==
    [][\A a \in DOMAIN applications \cap DOMAIN applications' :
          applications'[a].status # applications[a].status =>
             /\ applications'[a].status \in reviewStatuses =>
                   res'.tok.role \in Staff
             /\ res'.tok.role = "applicant" =>
                   /\ applications[a].user_id = res'.tok.id
                   /\ applications[a].status = "draft"
                   /\ applications'[a].status = "submitted"]_vars

----------------------------------------------------------------------------
(* Properties of the client's timers and routes *)

\* C13: at most one warning timer and at most one logout timer are pending
\* at any time; a step that schedules a new pair (an activity, extend
\* session, a validated page load) leaves none of the timers that were
\* pending before it; and when the logout timer fires no other logout timer
\* is pending, so logout() is called once per scheduled pair.
C13_OnePendingPair ==
    /\ [](/\ Cardinality(Pending("warning")) <= 1
          /\ Cardinality(Pending("logout")) <= 1)
    /\ [][warningTimeoutRef' # warningTimeoutRef => timers' \cap timers = {}]_vars
    /\ [][LogoutFires =>
            /\ Pending("logout")' = {}
            /\ logoutCalls' = logoutCalls + 1]_vars

\* The session was extended while the countdown ran, and the pair scheduled
\* then is the only one pending
C13_Witness ==
    /\ user # NoUser
    /\ countdownIntervalRef # 0
    /\ warningTimeoutRef > countdownIntervalRef
    /\ Pending("countdown") = {}
    /\ Cardinality(Pending("warning")) = 1
    /\ Cardinality(Pending("logout")) = 1

\* C14: while the authenticated user is not an admin the screen never shows
\* /users or /settings; a navigation or a page load that asks for one of them
\* comes to rest on /dashboard once the user is known; and a navigation to
\* /applications by any authenticated user rests there and shows it.
C14_AdminRoutesGuarded ==
    /\ [](user # NoUser /\ ~isAdmin(user) =>
             /\ Page(location, user, loading) \notin AdminPaths
             /\ ~loading => location \notin AdminPaths)
    /\ [][\A p \in AdminPaths :
            (Navigate(p) /\ user # NoUser /\ ~isAdmin(user) /\ ~loading) =>
               location' = "/dashboard"]_vars
    /\ [][(ValidateDone(TRUE) /\ location \in AdminPaths /\ ~isAdmin(storage)) =>
               location' = "/dashboard"]_vars
    /\ [][(Navigate("/applications") /\ user # NoUser /\ ~loading) =>
               /\ location' = "/applications"
               /\ Page(location, user, loading)' = "/applications"]_vars

\* An applicant asked for an admin route and was sent to /dashboard by
\* AdminRoute
C14_Witness ==
    /\ user = "student@email.com"
    /\ ~loading
    /\ location = "/dashboard"
    /\ locationState.unauthorized

\* C15: while there is no authenticated user the screen shows the spinner,
\* the login page or the not-found page, never a protected page; a
\* navigation or a page load that asks for a protected path without a user
\* and without a stored token rests on /login, and so does a page load whose
\* stored token the server does not accept.
C15_ProtectedRoutesGuarded ==
    /\ [](user = NoUser =>
             /\ Page(location, user, loading)
                   \in {"spinner"} \cup PublicPaths \cup NotFoundPaths
             /\ ~loading => location \in PublicPaths \cup NotFoundPaths)
    /\ [][\A p \in ProtectedPaths \cup AdminPaths :
            ((Navigate(p) /\ user = NoUser /\ ~loading)
               \/ (Goto(p) /\ storage = NoUser)) =>
                  location' = "/login"]_vars
    /\ [][(ValidateDone(FALSE) /\ location \notin NotFoundPaths) =>
            location' = "/login" /\ user' = NoUser]_vars

\* A page load of /dashboard with a stored token that the server refused
\* was sent to /login by ProtectedRoute, with the storage cleared
C15_Witness ==
    /\ user = NoUser
    /\ storage = NoUser
    /\ ~loading
    /\ location = "/login"
    /\ locationState.returnTo = "/dashboard"
    /\ logoutCalls = 0

\* C16: a logout() call that awaits its fetch leads to a state with no user,
\* no authToken and no user entry in localStorage, on /login, whichever way
\* the fetch settles; and from a state without a user and without a stored
\* token a navigation or page load to /dashboard rests on /login.
C16_LogoutEndsOnLogin ==
    /\ (logoutCalls > 0) ~>
          (user = NoUser /\ storage = NoUser /\ location = "/login")
    /\ [][\A o \in FetchOutcomes : LogoutDone(o) =>
            /\ user' = NoUser /\ storage' = NoUser
            /\ location \notin NotFoundPaths => location' = "/login"]_vars
    /\ [][((Navigate("/dashboard") \/ Goto("/dashboard"))
             /\ user = NoUser /\ storage = NoUser /\ ~loading) =>
                location' = "/login"]_vars

\* The logout button was pressed twice and the first call has finished: no
\* user, nothing stored, sent from /dashboard to /login
C16_Witness ==
    /\ user = NoUser
    /\ storage = NoUser
    /\ location = "/login"
    /\ locationState.returnTo = "/dashboard"
    /\ logoutCalls = 1

C24_ExtendSession ==
    /\ [][extendSession =>
            /\ ~showTimeoutWarning'
            /\ timers' \cap timers = {}
            /\ {<<tm.kind, tm.due>> : tm \in timers'} =
                  { <<"warning", clock + SESSION_TIMEOUT - WARNING_BEFORE_TIMEOUT>>,
                    <<"logout", clock + SESSION_TIMEOUT>> }
            /\ lastActivityRef' = clock
            /\ user' = user /\ storage' = storage
            /\ pings' = IF storage # NoUser THEN pings \o <<"pending">> ELSE pings]_vars
    /\ [][\A i \in DOMAIN pings, o \in FetchOutcomes : PingDone(i, o) =>
            /\ UNCHANGED <<user, storage, timers, showTimeoutWarning, remainingTime,
                           timeoutRef, warningTimeoutRef, countdownIntervalRef,
                           lastActivityRef, logoutCalls, routerVars>>
            /\ pings'[i] = o]_vars

\* The fetch of an extension made while the countdown ran was rejected: the
\* user is still set and the pair scheduled by the extension is pending
C24_Witness ==
    /\ pings = <<"rejected">>
    /\ user # NoUser /\ storage # NoUser
    /\ ~showTimeoutWarning
    /\ countdownIntervalRef # 0
    /\ Cardinality(Pending("warning")) = 1
    /\ Cardinality(Pending("logout")) = 1
    /\ \A tm \in Pending("logout") : tm.id = timeoutRef /\ tm.due = LogoutAt

\* C27 as claimed: once the render and the effects that follow a successful
\* login(), or the validation of a stored token on page load, have settled,
\* a logout timer is pending.
C27_LogoutTimerAfterLogin ==
    [][((\E u \in ClientUsers : ClientLogin(u)) \/ (ValidateDone(TRUE) /\ loading)) =>
          /\ user' # NoUser
          /\ Pending("logout")' # {}]_vars

----------------------------------------------------------------------------
(* Properties of the submit lock *)

\* C25 as claimed: at most one call of asyncFunction is in flight at any
\* time, and a lockSubmit call made while one is in flight returns null and
\* invokes nothing, also when it is made before the component re-renders.
C25_OneSubmissionInFlight ==
    /\ [](Cardinality(submissions) <= 1)
    /\ [][(lockSubmit /\ submissions # {}) =>
            /\ lockResult' = "null"
            /\ submissions' = submissions]_vars

----------------------------------------------------------------------------
(* Properties of the reset token *)

\* C26 as claimed: a token-gated route (GET /api/auth/me, GET
\* /api/applications, POST /api/auth/logout) answers 200 only to a token
\* that login or registration issued, never to the token of a reset link.
C26_ResetTokenNotAdmitted ==
    [][\A t \in Presentable \cup resetLinks :
          ((Me(t) \/ GetApplications(t) \/ Logout(t)) /\ res'.status = 200) =>
             /\ t \in issued
             /\ t.type # "password-reset"]_vars

----------------------------------------------------------------------------
(* Properties of the roles *)

StoredRole(uid) == {u.role : u \in UserById(uid)}

\* C28 as claimed: a request to an admin-only route (GET /api/users, PUT
\* /api/users/:id/role) is answered 200 only when the stored role of the
\* token's principal is admin at the time of the request, whatever role the
\* token carries.
C28_StoredRoleAuthorizes ==
    [][\A t \in issued :
          ((GetUsers(t) \/ \E u \in users, role \in Roles : PutUserRole(t, u.id, role))
             /\ res'.route \in {"users", "role"} /\ res'.status = 200) =>
                StoredRole(t.id) = {"admin"}]_vars

\* C29 as claimed: a registration creates only principals with the role
\* applicant, and a stored role becomes admin or officer only in the step of
\* a role change answered 200 to an admin.
C29_RegisterOnlyApplicant ==
    /\ [][\A r \in BagToSet(inflight) :
            (RegisterResume(r) /\ r.op = "register") =>
               \A u \in users' \ users : u.role = "applicant"]_vars
    /\ [][\A u \in users' \ users :
            u.role \in Staff =>
               /\ res'.route = "role" /\ res'.status = 200
               /\ res'.tok.role = "admin"]_vars

----------------------------------------------------------------------------
(* Properties of the registry, continued *)

\* C30: every token in a principal's registry set carries that principal's
\* id and was issued by the server; a logout step leaves the registry set of
\* every principal other than the token's unchanged, and so does the step
\* that ends a login.
C30_OwnSetOnly ==
    /\ [](\A uid \in DOMAIN activeSessions :
             \A t \in Range(activeSessions[uid]) : t.id = uid /\ t \in issued)
    /\ [][\A t \in Presentable : Logout(t) =>
            /\ DOMAIN activeSessions' = DOMAIN activeSessions
            /\ \A u \in DOMAIN activeSessions :
                  u # t.id => activeSessions'[u] = activeSessions[u]]_vars
    /\ [][\A r \in BagToSet(inflight) : (LoginResume(r) /\ r.op = "login") =>
            \A u \in DOMAIN activeSessions :
               u # r.user.id => activeSessions'[u] = activeSessions[u]]_vars

\* The applicant logged in and out again next to a session of the officer,
\* which is still registered
C30_Witness ==
    /\ res.route = "logout" /\ res.status = 200
    /\ res.tok.id = 3 /\ ~Live(res.tok)
    /\ SessionsOf(3) = << >>
    /\ \E o \in IssuedTo(2) : SessionsOf(2) = <<o>>

====
